---------------------------- MODULE Spec2Model ----------------------------
(***************************************************************************)
(* A model of go-dependency-injection-example: the Store dependency        *)
(* (database package), the Service that validates what the store returns   *)
(* (service package, in its method form and its closure form), and the     *)
(* command-line loop of main.                                              *)
(*                                                                         *)
(* Spec     : a Service and a NewGetNumber closure built over one store,   *)
(*            called by MaxCalls invocations that interleave freely.       *)
(* FairSpec : Spec with weak fairness on the steps of the invocations.     *)
(* MainSpec : the program main, reading lines from standard input.         *)
(***************************************************************************)
EXTENDS Integers, Sequences, FiniteSets, TLC

\* ------------------------------------------------------------------ bounds

\* Number of GetNumber invocations that may be in flight or finished.
MaxCalls == 2

\* Number of lines on standard input of main.
MaxLines == 3

Calls == 1..MaxCalls

\* Identifiers passed to GetNumber by the callers of the model.
Ids == {-1, 2}

\* Values a store is programmed to return.
Values == {-3, 7, 10, 11, 24}

\* Lines typed on standard input, each a sequence of characters.
Lines == {<<"2">>, <<"-", "1">>, <<"1", "2">>, <<>>, <<"x", "7">>}

\* ------------------------------------------------------------- error values

\* The nil error.
NilErr == [kind |-> "nil", ref |-> 0, msg |-> ""]

\* errors.New(msg): a store's error; ref is the identity of the allocation.
StoreErr(r, m) == [kind |-> "store", ref |-> r, msg |-> m]

\* ---------------------------------------------------------------- fmt, strconv

DigitChar(d) ==
  CASE d = 0 -> "0" [] d = 1 -> "1" [] d = 2 -> "2" [] d = 3 -> "3"
    [] d = 4 -> "4" [] d = 5 -> "5" [] d = 6 -> "6" [] d = 7 -> "7"
    [] d = 8 -> "8" [] d = 9 -> "9"

RECURSIVE FormatNat(_)
FormatNat(n) ==
  IF n < 10 THEN DigitChar(n) ELSE FormatNat(n \div 10) \o DigitChar(n % 10)

\* The verb %d of fmt: the decimal representation, with a sign when negative.
FormatInt(n) == IF n < 0 THEN "-" \o FormatNat(0 - n) ELSE FormatNat(n)

DigitChars == {"0", "1", "2", "3", "4", "5", "6", "7", "8", "9"}

DigitValue(ch) == CHOOSE d \in 0..9 : DigitChar(d) = ch

\* The value of a sequence of digits, most significant first.
RECURSIVE ParseNat(_)
ParseNat(s) ==
  IF s = <<>> THEN 0
  ELSE 10 * ParseNat(SubSeq(s, 1, Len(s) - 1)) + DigitValue(s[Len(s)])

IsDigits(s) == s # <<>> /\ \A i \in 1..Len(s) : s[i] \in DigitChars

\* strconv.Atoi within the range of int: an optional sign and digits give
\* the number; anything else gives 0 and an error.
Atoi(s) ==
  IF IsDigits(s) THEN [value |-> ParseNat(s), ok |-> TRUE]
  ELSE IF s # <<>> /\ s[1] \in {"+", "-"} /\ IsDigits(Tail(s))
    THEN [value |-> IF s[1] = "-" THEN 0 - ParseNat(Tail(s)) ELSE ParseNat(Tail(s)),
          ok |-> TRUE]
  ELSE [value |-> 0, ok |-> FALSE]

\* Errorf with the wrong operand: the limit is printed, not the value.
Errorf_Threshold(result) ==
  [kind |-> "fmt", ref |-> 0, msg |-> "result too high: " \o FormatInt(10)]

\* fmt.Errorf("result too high: %d", result): a fresh error of fmt.
Errorf(result) ==
  [kind |-> "fmt", ref |-> 0, msg |-> "result too high: " \o FormatInt(result)]

\* ------------------------------------------------------------------- state

VARIABLES
  supplied,      \* the store reference handed to the constructions
  Store,         \* the field Store of the Service
  closureStore,  \* the variable store captured by the closure of NewGetNumber
  expectations,  \* the mock: what On("Get", id).Return(value, err) registered
  pc,            \* per invocation: where it stands
  form,          \* per invocation: "method" (Service.GetNumber) or "closure"
  ID,            \* per invocation: the parameter ID
  gets,          \* per invocation: the arguments of its calls to Store.Get
  result,        \* per invocation: the local result
  err,           \* per invocation: the local err
  ret,           \* per invocation: the error it returned
  mainPc,        \* main: "loop" while scanning, "exit" after the loop
  stdin,         \* main: the lines of standard input
  scanned,       \* main: how many lines scanner.Scan has handed over
  stdout,        \* main: what was printed, one entry per print call
  mainCalls,     \* main: the arguments of its calls to GetNumber
  mainRets       \* main: the errors its calls to GetNumber returned

serviceVars == <<supplied, Store, closureStore, expectations>>
callVars == <<pc, form, ID, gets, result, err, ret>>
mainVars == <<mainPc, stdin, scanned, stdout, mainCalls, mainRets>>
vars == <<serviceVars, callVars, mainVars>>

\* The store references a caller can hand over: the nil interface, the store
\* NewStore builds, a MockStore.
StoreRefs == {"nil", "real", "mock"}

\* ------------------------------------------------------------- the stores

\* What a call of Get comes to: a panic, or the pair (value, err).
Returned(v, e) == [panic |-> FALSE, value |-> v, err |-> e]
Panicked == [panic |-> TRUE, value |-> 0, err |-> NilErr]

\* (*store).Get: the database operation is elided, it returns 0, nil.
store_Get(id) == Returned(0, NilErr)

\* An expectation of the mock for one argument: absent, or the pair to return.
NoExpectation == [on |-> FALSE, value |-> 0, err |-> NilErr]
On(v, e) == [on |-> TRUE, value |-> v, err |-> e]

\* The pairs the tests of the model register: every value with a nil error,
\* and store errors beside a small and beside a large value, two of them
\* distinct errors with one message, one with the message of a validation.
Registered ==
  {On(v, NilErr) : v \in Values}
    \cup {On(0, StoreErr(1, "failed")), On(24, StoreErr(2, "failed")),
          On(24, StoreErr(3, "result too high: 24"))}

\* (*MockStore).Get: m.Called(ID) panics on a call no expectation matches,
\* and otherwise hands back the registered pair.
MockStore_Get(exp, id) ==
  IF exp[id].on THEN Returned(exp[id].value, exp[id].err) ELSE Panicked

\* Store.Get through the interface: the dynamic dispatch on the reference.
\* A call through the nil interface is a run-time panic.
Get(ref, exp, id) ==
  CASE ref = "real" -> store_Get(id)
    [] ref = "mock" -> MockStore_Get(exp, id)
    [] ref = "nil" -> Panicked

\* ------------------------------------------------ Service.GetNumber (method)

\* The validation threshold of GetNumber.
Threshold == 10

\* GetNumber with the comparison >= in place of >.
GetNumber_Decide_Ge(r, e) ==
  IF e # NilErr THEN e
  ELSE IF r >= Threshold THEN Errorf(r)
  ELSE NilErr

\* GetNumber with the validation placed before the error check.
GetNumber_Decide_ValidateFirst(r, e) ==
  IF r > Threshold THEN Errorf(r)
  ELSE IF e # NilErr THEN e
  ELSE NilErr

\* GetNumber wrapping the store's error in an error of its own.
GetNumber_Decide_Wrap(r, e) ==
  IF e # NilErr THEN [kind |-> "fmt", ref |-> 0, msg |-> "get: " \o e.msg]
  ELSE IF r > Threshold THEN Errorf(r)
  ELSE NilErr

\* service.go 15-23: what GetNumber returns for the locals result and err.
GetNumber_Decide(r, e) ==
  IF e # NilErr THEN e
  ELSE IF r > Threshold THEN Errorf(r)
  ELSE NilErr

\* GetNumber guarding the nil Store and reporting success for it.
GetNumber_Call_NilOk(c, id) ==
  /\ pc[c] = "idle"
  /\ form' = [form EXCEPT ![c] = "method"]
  /\ ID' = [ID EXCEPT ![c] = id]
  /\ IF Store = "nil"
       THEN /\ pc' = [pc EXCEPT ![c] = "returned"]
            /\ UNCHANGED gets
       ELSE /\ pc' = [pc EXCEPT ![c] = "inGet"]
            /\ gets' = [gets EXCEPT ![c] = Append(@, id)]
  /\ UNCHANGED <<serviceVars, result, err, ret, mainVars>>

\* service.go 12-14: GetNumber is entered with ID and calls s.Store.Get(ID).
\* The call through a nil Store panics before any Get runs.
GetNumber_Call(c, id) ==
  /\ pc[c] = "idle"
  /\ form' = [form EXCEPT ![c] = "method"]
  /\ ID' = [ID EXCEPT ![c] = id]
  /\ IF Store = "nil"
       THEN /\ pc' = [pc EXCEPT ![c] = "panicked"]
            /\ UNCHANGED gets
       ELSE /\ pc' = [pc EXCEPT ![c] = "inGet"]
            /\ gets' = [gets EXCEPT ![c] = Append(@, id)]
  /\ UNCHANGED <<serviceVars, result, err, ret, mainVars>>

\* GetNumber keeping result and err in variables all invocations share.
GetNumber_Get_Shared(c) ==
  /\ pc[c] = "inGet"
  /\ form[c] = "method"
  /\ LET a == Get(Store, expectations, gets[c][Len(gets[c])])
     IN IF a.panic
          THEN /\ pc' = [pc EXCEPT ![c] = "panicked"]
               /\ UNCHANGED <<result, err>>
          ELSE /\ pc' = [pc EXCEPT ![c] = "gotResult"]
               /\ result' = [k \in Calls |-> a.value]
               /\ err' = [k \in Calls |-> a.err]
  /\ UNCHANGED <<serviceVars, form, ID, gets, ret, mainVars>>

\* service.go 14: the store answers, and the pair is assigned to the locals
\* result and err of this invocation; a panic of the store unwinds it.
GetNumber_Get(c) ==
  /\ pc[c] = "inGet"
  /\ form[c] = "method"
  /\ LET a == Get(Store, expectations, gets[c][Len(gets[c])])
     IN IF a.panic
          THEN /\ pc' = [pc EXCEPT ![c] = "panicked"]
               /\ UNCHANGED <<result, err>>
          ELSE /\ pc' = [pc EXCEPT ![c] = "gotResult"]
               /\ result' = [result EXCEPT ![c] = a.value]
               /\ err' = [err EXCEPT ![c] = a.err]
  /\ UNCHANGED <<serviceVars, form, ID, gets, ret, mainVars>>

\* GetNumber calling the store once more after a failed lookup.
GetNumber_Return_Retry(c) ==
  /\ pc[c] = "gotResult"
  /\ form[c] = "method"
  /\ IF err[c] # NilErr /\ Len(gets[c]) < 2
       THEN /\ pc' = [pc EXCEPT ![c] = "inGet"]
            /\ gets' = [gets EXCEPT ![c] = Append(@, ID[c])]
            /\ UNCHANGED ret
       ELSE /\ ret' = [ret EXCEPT ![c] = GetNumber_Decide(result[c], err[c])]
            /\ pc' = [pc EXCEPT ![c] = "returned"]
            /\ UNCHANGED gets
  /\ UNCHANGED <<serviceVars, form, ID, result, err, mainVars>>

\* GetNumber dropping its store after a failed lookup.
GetNumber_Return_ResetStore(c) ==
  /\ pc[c] = "gotResult"
  /\ form[c] = "method"
  /\ ret' = [ret EXCEPT ![c] = GetNumber_Decide(result[c], err[c])]
  /\ pc' = [pc EXCEPT ![c] = "returned"]
  /\ Store' = IF err[c] # NilErr THEN "nil" ELSE Store
  /\ UNCHANGED <<supplied, closureStore, expectations>>
  /\ UNCHANGED <<form, ID, gets, result, err, mainVars>>

\* service.go 15-24: the error check, the validation and the return.
GetNumber_Return(c) ==
  /\ pc[c] = "gotResult"
  /\ form[c] = "method"
  /\ ret' = [ret EXCEPT ![c] = GetNumber_Decide(result[c], err[c])]
  /\ pc' = [pc EXCEPT ![c] = "returned"]
  /\ UNCHANGED <<serviceVars, form, ID, gets, result, err, mainVars>>

\* ------------------------------------------- NewGetNumber (closure form)

\* The closure with the comparison >= in place of >.
Closure_Decide_Ge(r, e) ==
  IF e # NilErr THEN e
  ELSE IF r >= Threshold THEN Errorf(r)
  ELSE NilErr

\* service.go 30-38: what the closure returns for its locals result and err.
Closure_Decide(r, e) ==
  IF e # NilErr THEN e
  ELSE IF r > Threshold THEN Errorf(r)
  ELSE NilErr

\* service.go 27-29: the closure is entered with ID and calls store.Get(ID)
\* on the store it captured.
Closure_Call(c, id) ==
  /\ pc[c] = "idle"
  /\ form' = [form EXCEPT ![c] = "closure"]
  /\ ID' = [ID EXCEPT ![c] = id]
  /\ IF closureStore = "nil"
       THEN /\ pc' = [pc EXCEPT ![c] = "panicked"]
            /\ UNCHANGED gets
       ELSE /\ pc' = [pc EXCEPT ![c] = "inGet"]
            /\ gets' = [gets EXCEPT ![c] = Append(@, id)]
  /\ UNCHANGED <<serviceVars, result, err, ret, mainVars>>

\* service.go 29: the store answers the closure's call.
Closure_Get(c) ==
  /\ pc[c] = "inGet"
  /\ form[c] = "closure"
  /\ LET a == Get(closureStore, expectations, gets[c][Len(gets[c])])
     IN IF a.panic
          THEN /\ pc' = [pc EXCEPT ![c] = "panicked"]
               /\ UNCHANGED <<result, err>>
          ELSE /\ pc' = [pc EXCEPT ![c] = "gotResult"]
               /\ result' = [result EXCEPT ![c] = a.value]
               /\ err' = [err EXCEPT ![c] = a.err]
  /\ UNCHANGED <<serviceVars, form, ID, gets, ret, mainVars>>

\* service.go 30-38: the closure's error check, validation and return.
Closure_Return(c) ==
  /\ pc[c] = "gotResult"
  /\ form[c] = "closure"
  /\ ret' = [ret EXCEPT ![c] = Closure_Decide(result[c], err[c])]
  /\ pc' = [pc EXCEPT ![c] = "returned"]
  /\ UNCHANGED <<serviceVars, form, ID, gets, result, err, mainVars>>

\* ---------------------------------------------------------- specification

\* The mocks the tests of the model set up: any registration per identifier.
MockSetups == [Ids -> Registered \cup {NoExpectation}]

\* After construction: Service{Store: supplied} and NewGetNumber(supplied)
\* over the same store, no invocation started, main not running.
Init ==
  /\ supplied \in StoreRefs
  /\ Store = supplied
  /\ closureStore = supplied
  /\ expectations \in MockSetups
  /\ supplied # "mock" => expectations = [i \in Ids |-> NoExpectation]
  /\ pc = [c \in Calls |-> "idle"]
  /\ form = [c \in Calls |-> "none"]
  /\ ID = [c \in Calls |-> 0]
  /\ gets = [c \in Calls |-> <<>>]
  /\ result = [c \in Calls |-> 0]
  /\ err = [c \in Calls |-> NilErr]
  /\ ret = [c \in Calls |-> NilErr]
  /\ mainPc = "exit"
  /\ stdin = <<>>
  /\ scanned = 0
  /\ stdout = <<>>
  /\ mainCalls = <<>>
  /\ mainRets = <<>>

Next ==
  \E c \in Calls :
    \/ \E id \in Ids : GetNumber_Call(c, id)
    \/ GetNumber_Get(c)
    \/ GetNumber_Return(c)
    \/ \E id \in Ids : Closure_Call(c, id)
    \/ Closure_Get(c)
    \/ Closure_Return(c)

Spec == Init /\ [][Next]_vars

\* The steps of the invocations under way: the store answering, and the
\* code of GetNumber after the answer.
Progress ==
  \E c \in Calls :
    \/ GetNumber_Get(c) \/ GetNumber_Return(c)
    \/ Closure_Get(c) \/ Closure_Return(c)

\* A goroutine that can run is scheduled: while an invocation has a step to
\* take, some invocation takes a step.
FairSpec == Spec /\ WF_vars(Progress)

\* --------------------------------------------------------------------- main

\* What one print call writes: the text, and whether a newline follows
\* (fmt.Println) or not (fmt.Printf without one in its format).
Printed(t, nl) == [text |-> t, newline |-> nl]

\* All the inputs of at most MaxLines lines.
RECURSIVE Inputs(_)
Inputs(n) ==
  IF n = 0 THEN {<<>>}
  ELSE Inputs(n - 1) \cup {Append(i, l) : i \in {j \in Inputs(n - 1) : Len(j) = n - 1}, l \in Lines}

\* main 30-41: the store is NewStore(db), the service holds it, the scanner
\* stands before the first line of standard input.
MainInit ==
  /\ supplied = "real"
  /\ Store = "real"
  /\ closureStore = "real"
  /\ expectations = [i \in Ids |-> NoExpectation]
  /\ pc = [c \in Calls |-> "idle"]
  /\ form = [c \in Calls |-> "none"]
  /\ ID = [c \in Calls |-> 0]
  /\ gets = [c \in Calls |-> <<>>]
  /\ result = [c \in Calls |-> 0]
  /\ err = [c \in Calls |-> NilErr]
  /\ ret = [c \in Calls |-> NilErr]
  /\ mainPc = "loop"
  /\ stdin \in Inputs(MaxLines)
  /\ scanned = 0
  /\ stdout = <<>>
  /\ mainCalls = <<>>
  /\ mainRets = <<>>

\* main 42: scanner.Scan() finds no further line and the loop ends.
main_Exit ==
  /\ mainPc = "loop"
  /\ scanned = Len(stdin)
  /\ mainPc' = "exit"
  /\ UNCHANGED <<serviceVars, callVars, stdin, scanned, stdout, mainCalls, mainRets>>

\* main with a return after the valid result is printed.
main_Scan_Return ==
  /\ mainPc = "loop"
  /\ scanned < Len(stdin)
  /\ LET text == stdin[scanned + 1]
         id == Atoi(text).value
         a == Get(Store, expectations, id)
         e == GetNumber_Decide(a.value, a.err)
     IN /\ scanned' = scanned + 1
        /\ mainCalls' = Append(mainCalls, id)
        /\ IF a.panic
             THEN /\ mainPc' = "panicked"
                  /\ UNCHANGED <<stdout, mainRets>>
             ELSE /\ mainRets' = Append(mainRets, e)
                  /\ IF e # NilErr
                       THEN /\ stdout' = Append(stdout, Printed("result invalid: " \o e.msg, FALSE))
                            /\ UNCHANGED mainPc
                       ELSE /\ stdout' = Append(stdout, Printed("result valid", TRUE))
                            /\ mainPc' = "exit"
  /\ UNCHANGED <<serviceVars, callVars, stdin>>

\* main 42-50: one turn of the loop. scanner.Scan() hands over the next
\* line, Atoi reads the ID (its error is dropped), service.GetNumber(ID) runs
\* to its end against the store, and one of the two results is printed.
main_Scan ==
  /\ mainPc = "loop"
  /\ scanned < Len(stdin)
  /\ LET text == stdin[scanned + 1]
         id == Atoi(text).value
         a == Get(Store, expectations, id)
         e == GetNumber_Decide(a.value, a.err)
     IN /\ scanned' = scanned + 1
        /\ mainCalls' = Append(mainCalls, id)
        /\ IF a.panic
             THEN /\ mainPc' = "panicked"
                  /\ UNCHANGED <<stdout, mainRets>>
             ELSE /\ mainRets' = Append(mainRets, e)
                  /\ UNCHANGED mainPc
                  /\ IF e # NilErr
                       THEN stdout' = Append(stdout, Printed("result invalid: " \o e.msg, FALSE))
                       ELSE stdout' = Append(stdout, Printed("result valid", TRUE))
  /\ UNCHANGED <<serviceVars, callVars, stdin>>

MainNext == main_Scan \/ main_Exit

MainSpec == MainInit /\ [][MainNext]_vars

\* ------------------------------------------------------------ properties

\* What the store supplied at construction answers to the call of
\* invocation c, read off the store's configuration.
StoreAnswer(c) == Get(supplied, expectations, ID[c])

IsMethod(c) == form[c] = "method"
HasReturned(c) == pc[c] = "returned"

\* C1: when Store.Get(id) returns (v, nil) with v <= 10 (10 itself, zero and
\* negative values included), Service.GetNumber(id) returns no error.
C1_ValidValueSucceeds ==
  \A c \in Calls :
    (/\ IsMethod(c) /\ HasReturned(c)
     /\ ~StoreAnswer(c).panic
     /\ StoreAnswer(c).err = NilErr
     /\ StoreAnswer(c).value <= 10) => ret[c] = NilErr

C1_Witness ==
  \E c, d \in Calls :
    /\ IsMethod(c) /\ HasReturned(c)
    /\ StoreAnswer(c) = Returned(10, NilErr) /\ ret[c] = NilErr
    /\ IsMethod(d) /\ HasReturned(d)
    /\ StoreAnswer(d) = Returned(-3, NilErr) /\ ret[d] = NilErr

\* The decimal representations of the values above the threshold that the
\* stores of the model return, written out.
TooHighMessage(v) ==
  CASE v = 11 -> "result too high: 11"
    [] v = 24 -> "result too high: 24"
    [] OTHER -> "no value of the model"

\* C2: when Store.Get(id) returns (v, nil) with v > 10 (11 included),
\* Service.GetNumber(id) fails with an error whose message is exactly
\* "result too high: " followed by the decimal representation of v.
C2_TooHighFails ==
  \A c \in Calls :
    (/\ IsMethod(c) /\ HasReturned(c)
     /\ ~StoreAnswer(c).panic
     /\ StoreAnswer(c).err = NilErr
     /\ StoreAnswer(c).value > 10)
      => /\ ret[c] # NilErr
         /\ ret[c].msg = TooHighMessage(StoreAnswer(c).value)

C2_Witness ==
  \E c, d \in Calls :
    /\ IsMethod(c) /\ HasReturned(c)
    /\ StoreAnswer(c) = Returned(11, NilErr)
    /\ ret[c].msg = "result too high: 11"
    /\ IsMethod(d) /\ HasReturned(d)
    /\ StoreAnswer(d) = Returned(24, NilErr)
    /\ ret[d].msg = "result too high: 24"

\* C3: when Store.Get(id) returns a non-nil error, Service.GetNumber(id)
\* returns that very error (same identity, same message, not wrapped),
\* whatever value comes with it: a value above 10 is not validated.
C3_LookupErrorPropagated ==
  \A c \in Calls :
    (/\ IsMethod(c) /\ HasReturned(c)
     /\ ~StoreAnswer(c).panic
     /\ StoreAnswer(c).err # NilErr) => ret[c] = StoreAnswer(c).err

C3_Witness ==
  \E c, d \in Calls :
    /\ IsMethod(c) /\ HasReturned(c)
    /\ StoreAnswer(c) = Returned(24, StoreErr(2, "failed"))
    /\ ret[c] = StoreErr(2, "failed")
    /\ IsMethod(d) /\ HasReturned(d)
    /\ StoreAnswer(d) = Returned(24, StoreErr(3, "result too high: 24"))
    /\ ret[d] = StoreErr(3, "result too high: 24")

IsClosure(c) == form[c] = "closure"
HasPanicked(c) == pc[c] = "panicked"
HasEnded(c) == HasReturned(c) \/ HasPanicked(c)

\* C4: over the same store and for the same identifier, the function
\* NewGetNumber returns and the method Service.GetNumber end alike: both
\* succeed or both fail with the same error, after the same call of Store.Get.
C4_FormsEquivalent ==
  \A c, d \in Calls :
    (/\ IsMethod(c) /\ IsClosure(d)
     /\ ID[c] = ID[d]
     /\ HasEnded(c) /\ HasEnded(d))
      => /\ pc[c] = pc[d]
         /\ ret[c] = ret[d]
         /\ gets[c] = gets[d]

C4_Witness ==
  \E c, d \in Calls :
    /\ IsMethod(c) /\ IsClosure(d)
    /\ ID[c] = ID[d]
    /\ HasReturned(c) /\ HasReturned(d)
    /\ StoreAnswer(c) = Returned(10, NilErr)
    /\ ret[c] = NilErr /\ ret[d] = NilErr
    /\ gets[c] = <<ID[c]>> /\ gets[d] = <<ID[c]>>

\* C5: an invocation of GetNumber(id) calls Store.Get once, with id, before
\* it returns; no path makes a second call, a failed lookup is not retried.
C5_OneLookupPerCall ==
  \A c \in Calls :
    /\ Len(gets[c]) <= 1
    /\ pc[c] \in {"inGet", "gotResult", "returned"} => gets[c] = <<ID[c]>>

C5_Witness ==
  \E c, d \in Calls :
    /\ IsMethod(c) /\ HasReturned(c)
    /\ ret[c] = StoreErr(1, "failed") /\ gets[c] = <<ID[c]>>
    /\ IsMethod(d) /\ HasReturned(d)
    /\ ret[d] = NilErr /\ gets[d] = <<ID[d]>>

\* C6: GetNumber on a Service whose Store is nil fails loudly: the call never
\* returns, with or without an error; it ends in a panic.
C6_NilStoreFailsLoudly ==
  Store = "nil" =>
    \A c \in Calls : IsMethod(c) => (HasPanicked(c) /\ gets[c] = <<>>)

C6_Witness ==
  /\ Store = "nil"
  /\ \E c \in Calls : IsMethod(c) /\ HasPanicked(c)

\* The three terminal outcomes of a call.
Succeeded(c) == ret[c] = NilErr
FailedLookup(c) == ret[c] # NilErr /\ ret[c] = err[c]
FailedValidation(c) == ret[c] # NilErr /\ ret[c] = Errorf(result[c])

Outcomes(c) ==
  {o \in {"succeeded", "failedLookup", "failedValidation"} :
     \/ o = "succeeded" /\ Succeeded(c)
     \/ o = "failedLookup" /\ FailedLookup(c)
     \/ o = "failedValidation" /\ FailedValidation(c)}

\* C7: a call that the store has answered ends in exactly one of succeeded,
\* failed-lookup and failed-validation: it does not stay pending, and once it
\* has returned its outcome does not change.
C7_OneTerminalOutcome ==
  /\ [](\A c \in Calls : HasReturned(c) => Cardinality(Outcomes(c)) = 1)
  /\ [][\A c \in Calls :
          HasReturned(c) => (pc'[c] = "returned" /\ ret'[c] = ret[c])]_vars
  /\ \A c \in Calls : (pc[c] = "gotResult") ~> HasReturned(c)

C7_Witness ==
  \E c, d \in Calls :
    /\ HasReturned(c) /\ Outcomes(c) = {"failedLookup"}
    /\ HasReturned(d) /\ Outcomes(d) = {"failedValidation"}

\* What an invocation of the given form comes to when it runs alone against
\* the answer a of the store.
Alone(f, a) ==
  IF f = "method" THEN GetNumber_Decide(a.value, a.err)
  ELSE Closure_Decide(a.value, a.err)

\* C8: however the invocations interleave, each one ends as the pair that
\* Store.Get returned to it decides, as it would running alone.
C8_CallsIndependent ==
  \A c \in Calls :
    /\ HasReturned(c) => (~StoreAnswer(c).panic
                           /\ ret[c] = Alone(form[c], StoreAnswer(c)))
    /\ (HasPanicked(c) => StoreAnswer(c).panic)

C8_Witness ==
  \E c, d \in Calls :
    /\ c # d
    /\ HasReturned(c) /\ pc[d] = "gotResult"
    /\ result[c] <= 10 /\ result[d] > 10
    /\ err[c] = NilErr /\ err[d] # NilErr
    /\ ret[c] = NilErr

\* C9: no call of GetNumber, on any path, changes the Store held by the
\* Service or the store captured by the closure: both stay the reference
\* supplied at construction.
C9_StoreNeverReassigned ==
  /\ Store = supplied
  /\ closureStore = supplied

C9_Witness ==
  /\ Store = supplied /\ closureStore = supplied
  /\ \E c, d \in Calls :
       /\ IsMethod(c) /\ HasReturned(c) /\ FailedLookup(c)
       /\ IsClosure(d) /\ HasReturned(d) /\ FailedValidation(d)

\* The identifiers the lines of the model stand for, written out.
LineId(l) ==
  CASE l = <<"2">> -> 2
    [] l = <<"-", "1">> -> -1
    [] l = <<"1", "2">> -> 12
    [] OTHER -> 0

=============================================================================
